---- MODULE Spec2Model ----
(***************************************************************************)
(* Closure registry and signal-connection bridge of go-glib.               *)
(*                                                                         *)
(*   core/closure/closure.go : Registry (Register / Load / Delete)         *)
(*   glib connect file       : Connect / ConnectAfter / connectClosure /   *)
(*                             ClosureNew / removeClosure                  *)
(*                                                                         *)
(* Two specifications are given.  SpecRegistry drives the Registry's three *)
(* methods from several goroutines.  Spec drives the connect / emit /      *)
(* disconnect / finalize lifecycle of one object.                          *)
(***************************************************************************)
EXTENDS Integers, Sequences, FiniteSets, TLC

\* ------------------------------------------------------------------ domains

\* unsafe.Pointer(*C.GClosure): the addresses the native allocator hands out.
Identities == {"g1", "g2"}

\* The nil *FuncStack that Load returns when nothing is found.
Nil == [Func |-> "nil", seq |-> 0]

\* *FuncStack values handed to Register directly by a goroutine.
FuncStacks == {[Func |-> "fA", seq |-> 0], [Func |-> "fB", seq |-> 0]}

\* Goroutines calling the Registry concurrently.
Threads == {"t1", "t2"}

\* Number of Register/Delete calls one run of SpecRegistry performs.
MaxOps == 3

\* Number of Connect/ConnectAfter calls one run of Spec performs.
MaxConnects == 2

\* Callbacks handed to Connect, by what reflection sees of them:
\*   "f0"      func()                 no parameter
\*   "fObj"    func(obj *ObjType)     first parameter convertible from the object
\*   "fOther"  func(s string)         first parameter not convertible from it
\*   "f3"      func(obj *ObjType, a, b int)   three parameters
Callbacks == {"f0", "fObj", "fOther"}

\* The callbacks of the runs that look at the number of arguments.
ArityCallbacks == {"fObj", "f3"}

NumInAlwaysOne(f) == 1

\* reflect: fs.Func.Type().NumIn()
NumIn(f) == IF f = "f0" THEN 0 ELSE IF f = "f3" THEN 3 ELSE 1

\* reflect: objType.ConvertibleTo(fsType.In(0)); only asked when NumIn(f) >= 1
ConvertibleTo(f) == f \in {"fObj", "f3"}

\* How many native values an emission supplies: "clicked" supplies the
\* instance alone; the runs that look at arity also emit a signal with three.
ClickedArgs == {1}
ArityArgs == {1, 3}

\* Detailed signal names; the native connect knows only the first.
Signals == {"clicked", "bogus"}
ValidSignals == {"clicked"}

\* ----------------------------------------------------------------- Registry
\* Registry.reg is a sync.Map: every method below is one atomic
\* (linearizable) operation on it.  The map is a function whose DOMAIN is
\* the set of keys present.

NewRegistry == << >>

RegisterOverwritesAll(r, gclosure, callback) ==
    [i \in DOMAIN r \cup {gclosure} |-> callback]

Register(r, gclosure, callback) ==
    [i \in DOMAIN r \cup {gclosure} |-> IF i = gclosure THEN callback ELSE r[i]]

LoadAnyEntry(r, gclosure) ==
    IF gclosure \in DOMAIN r THEN r[gclosure]
    ELSE IF DOMAIN r = {} THEN Nil ELSE r[CHOOSE i \in DOMAIN r : TRUE]

Load(r, gclosure) ==
    IF gclosure \in DOMAIN r THEN r[gclosure] ELSE Nil

DeleteKeepsEntry(r, gclosure) == r

DeleteEvictsWhenAbsent(r, gclosure) ==
    IF gclosure \in DOMAIN r THEN [i \in DOMAIN r \ {gclosure} |-> r[i]]
    ELSE IF DOMAIN r = {} THEN r
    ELSE [i \in DOMAIN r \ {CHOOSE j \in DOMAIN r : TRUE} |-> r[i]]

Delete(r, gclosure) ==
    [i \in DOMAIN r \ {gclosure} |-> r[i]]

\* ---------------------------------------------------------------- variables

VARIABLES
    reg,        \* v.box.Closures.reg of the object
    other,      \* SpecFrame: the Registry of a second object
    pc,         \* SpecRegistry: per goroutine, "idle" or "called"
    op,         \* SpecRegistry: per goroutine, the call in progress
    ret,        \* SpecRegistry: per goroutine, what its last Load returned and when
    log,        \* SpecRegistry: the Register/Delete calls in the order they took effect
    strict,     \* Spec: the value ClosureCheckReceiver was built with
    alive,      \* Spec: the object has not been torn down
    cn,         \* Spec: the goroutine inside connectClosure, and where it is
    nconn,      \* Spec: connectClosure calls made so far
    closures,   \* Spec: the native runtime's closures, by address
    handlers,   \* Spec: the native runtime's signal handlers; the handle is the index
    signalClosures, \* Spec: association table, handle -> closure identity
    closureSignals, \* Spec: association table, closure identity -> handle
    em          \* Spec: the emission in flight, and where goMarshal is

regVars == <<pc, op, ret, log, other>>
assocVars == <<signalClosures, closureSignals>>
lifeVars == <<strict, alive, cn, nconn, closures, handlers, signalClosures, closureSignals, em>>
vars == <<reg, other, pc, op, ret, log, strict, alive, cn, nconn, closures, handlers,
          signalClosures, closureSignals, em>>

\* ------------------------------------------------- SpecRegistry: goroutines

NoOp == [kind |-> "none", id |-> "g1", fs |-> Nil, at |-> 0]
NoRet == [valid |-> FALSE, id |-> "g1", val |-> Nil, called |-> 0, at |-> 0]

Calls ==
    [kind : {"Register"}, id : Identities, fs : FuncStacks, at : {0}]
    \cup [kind : {"Load", "Delete"}, id : Identities, fs : {Nil}, at : {0}]

IdleConn == [pc |-> "idle", after |-> FALSE, sig |-> "none", f |-> "none", fs |-> Nil,
             goErr |-> FALSE, direct |-> FALSE, gclosure |-> "none", c |-> 0,
             out |-> "none"]
FreeClosure == [st |-> "free", marshal |-> FALSE, notify |-> FALSE]
IdleEmission == [pc |-> "idle", h |-> 0, closure |-> "none", nargs |-> 0, fs |-> Nil,
                 late |-> FALSE, fin |-> FALSE, absent |-> FALSE, invoked |-> FALSE,
                 passed |-> 0, failed |-> FALSE, err |-> FALSE, unwound |-> FALSE]

InitRegistry ==
    /\ reg = NewRegistry
    /\ other = NewRegistry
    /\ pc = [t \in Threads |-> "idle"]
    /\ op = [t \in Threads |-> NoOp]
    /\ ret = [t \in Threads |-> NoRet]
    /\ log = << >>
    /\ strict = FALSE
    /\ alive = TRUE
    /\ cn = IdleConn
    /\ nconn = 0
    /\ closures = [g \in Identities |-> FreeClosure]
    /\ handlers = << >>
    /\ signalClosures = << >>
    /\ closureSignals = << >>
    /\ em = IdleEmission

\* A goroutine enters one of the three methods; `at` remembers how many
\* Register/Delete calls had taken effect when it entered.
Call(t) ==
    /\ pc[t] = "idle"
    /\ \E c \in Calls :
         /\ c.kind \in {"Register", "Delete"} => Len(log) < MaxOps
         /\ op' = [op EXCEPT ![t] = [c EXCEPT !.at = Len(log)]]
    /\ pc' = [pc EXCEPT ![t] = "called"]
    /\ ret' = [ret EXCEPT ![t] = NoRet]
    /\ UNCHANGED <<reg, log>>

RegisterStep(t) ==
    /\ pc[t] = "called" /\ op[t].kind = "Register"
    /\ reg' = Register(reg, op[t].id, op[t].fs)
    /\ log' = Append(log, [kind |-> "Register", id |-> op[t].id, fs |-> op[t].fs])
    /\ pc' = [pc EXCEPT ![t] = "idle"]
    /\ op' = [op EXCEPT ![t] = NoOp]
    /\ UNCHANGED ret

LoadStep(t) ==
    /\ pc[t] = "called" /\ op[t].kind = "Load"
    /\ ret' = [ret EXCEPT ![t] = [valid |-> TRUE, id |-> op[t].id, val |-> Load(reg, op[t].id),
                                  called |-> op[t].at, at |-> Len(log)]]
    /\ pc' = [pc EXCEPT ![t] = "idle"]
    /\ op' = [op EXCEPT ![t] = NoOp]
    /\ UNCHANGED <<reg, log>>

DeleteStep(t) ==
    /\ pc[t] = "called" /\ op[t].kind = "Delete"
    /\ reg' = Delete(reg, op[t].id)
    /\ log' = Append(log, [kind |-> "Delete", id |-> op[t].id, fs |-> Nil])
    /\ pc' = [pc EXCEPT ![t] = "idle"]
    /\ op' = [op EXCEPT ![t] = NoOp]
    /\ UNCHANGED ret

NextRegistry ==
    /\ \E t \in Threads : Call(t) \/ RegisterStep(t) \/ LoadStep(t) \/ DeleteStep(t)
    /\ UNCHANGED <<lifeVars, other>>

SpecRegistry == InitRegistry /\ [][NextRegistry]_vars

\* ------------------------------------------------ SpecFrame: two objects
\* Every Object has a Registry of its own in its box (v.box.Closures).  The
\* methods are called here on the Registry of "v" (reg) or of "w" (other),
\* each call one atomic operation on that Registry's sync.Map.

Objects == {"v", "w"}

RegistryOf(o) == IF o = "v" THEN reg ELSE other

RegisterOn(o, gclosure, callback) ==
    /\ Len(log) < MaxOps
    /\ IF o = "v"
       THEN reg' = Register(reg, gclosure, callback) /\ other' = other
       ELSE other' = Register(other, gclosure, callback) /\ reg' = reg
    /\ log' = Append(log, [kind |-> "Register", id |-> gclosure, fs |-> callback, obj |-> o])
    /\ UNCHANGED <<pc, op, ret, lifeVars>>

LoadOn(o, gclosure) ==
    /\ ret' = [ret EXCEPT !["t1"] =
                  [valid |-> TRUE, id |-> gclosure, val |-> Load(RegistryOf(o), gclosure),
                   called |-> Len(log), at |-> Len(log)]]
    /\ ret' # ret
    /\ UNCHANGED <<reg, other, log, pc, op, lifeVars>>

DeleteOn(o, gclosure) ==
    /\ Len(log) < MaxOps
    /\ IF o = "v"
       THEN reg' = Delete(reg, gclosure) /\ other' = other
       ELSE other' = Delete(other, gclosure) /\ reg' = reg
    /\ log' = Append(log, [kind |-> "Delete", id |-> gclosure, fs |-> Nil, obj |-> o])
    /\ UNCHANGED <<pc, op, ret, lifeVars>>

NextFrame ==
    \/ \E o \in Objects, i \in Identities, w \in FuncStacks : RegisterOn(o, i, w)
    \/ \E o \in Objects, i \in Identities : LoadOn(o, i)
    \/ \E o \in Objects, i \in Identities : DeleteOn(o, i)

SpecFrame == InitRegistry /\ [][NextFrame]_vars

\* ------------------------------------------- SpecRegistry: reading the log

\* The last Register/Delete on identity i among the calls in l, if any.
RECURSIVE LastWrite(_, _)
LastWrite(l, i) ==
    IF l = << >> THEN [kind |-> "none", id |-> i, fs |-> Nil]
    ELSE IF l[Len(l)].id = i THEN l[Len(l)]
    ELSE LastWrite(SubSeq(l, 1, Len(l) - 1), i)

\* What the history l says a Load of i must return.
Expected(l, i) ==
    IF LastWrite(l, i).kind = "Register" THEN LastWrite(l, i).fs ELSE Nil

\* Every wrapper some Register call in l stored under i.
RegisteredUnder(l, i) ==
    {l[k].fs : k \in {n \in 1..Len(l) : l[n].kind = "Register" /\ l[n].id = i}}

\* The Register/Delete calls that took effect while the Load reported in r
\* was in progress.
During(r) == {k \in 1..Len(log) : r.called < k /\ k <= r.at}

IsStep(t) == RegisterStep(t) \/ LoadStep(t) \/ DeleteStep(t)

\* ------------------------------------------------------------------ C1
\* C1: a Load of identity i returns exactly the wrapper of the latest
\* Register(i, w) when no Delete(i) took effect after it, and nil when the
\* latest call on i was a Delete or when i was never registered.
RegistryRoundTrip ==
    \A t \in Threads :
        ret[t].valid =>
            ret[t].val = Expected(SubSeq(log, 1, ret[t].at), ret[t].id)

\* A Load that returned a registered wrapper, and a Load after a Delete that
\* returned nil, side by side.
RoundTripWitness ==
    \E t, u \in Threads :
        /\ ret[t].valid /\ ret[t].val \in FuncStacks
        /\ ret[u].valid /\ ret[u].val = Nil
        /\ LastWrite(SubSeq(log, 1, ret[u].at), ret[u].id).kind = "Delete"
        /\ RegisteredUnder(SubSeq(log, 1, ret[u].at), ret[u].id) # {}

\* ------------------------------------------------------------------ C2
\* C2: a Delete(i) that follows a Delete(i), and a Delete(i) of an identity
\* with no entry, leave the registry exactly as it was; the call completes
\* (Delete has no result and no failure path).
DeleteIdempotent ==
    [][\A t \in Threads :
          DeleteStep(t)
          /\ (\/ op[t].id \notin DOMAIN reg
              \/ (Len(log) > 0 /\ log[Len(log)].kind = "Delete"
                                /\ log[Len(log)].id = op[t].id))
          => (reg' = reg /\ pc'[t] = "idle")]_vars

\* Register(i), Delete(i), Delete(i) have taken effect in this order.
DeleteTwiceWitness ==
    /\ Len(log) = 3
    /\ log[1].kind = "Register"
    /\ log[2].kind = "Delete" /\ log[2].id = log[1].id
    /\ log[3].kind = "Delete" /\ log[3].id = log[1].id
    /\ DOMAIN reg = {}

\* ------------------------------------------------------------------ C3
\* C3: under every interleaving of the goroutines' calls, a call on identity
\* i leaves the entry of every other identity as it was, and a Load(i),
\* racing with a Delete(i) or not, returns a wrapper that was registered
\* under i or nil.
RegistryConcurrencySafe ==
    /\ [](\A t \in Threads :
            ret[t].valid =>
                ret[t].val \in {Nil} \cup RegisteredUnder(SubSeq(log, 1, ret[t].at), ret[t].id))
    /\ [][\A t \in Threads :
            IsStep(t) =>
                \A j \in Identities \ {op[t].id} :
                    /\ (j \in DOMAIN reg') = (j \in DOMAIN reg)
                    /\ j \in DOMAIN reg => reg'[j] = reg[j]]_vars

\* A Load(i) during which a Delete(i) took effect has returned, while the
\* entry of another identity is still in the registry.
RacingLoadWitness ==
    \E t \in Threads :
        /\ ret[t].valid
        /\ \E k \in During(ret[t]) : log[k].kind = "Delete" /\ log[k].id = ret[t].id
        /\ RegisteredUnder(SubSeq(log, 1, ret[t].called), ret[t].id) # {}
        /\ \E j \in DOMAIN reg : j # ret[t].id

\* ------------------------------------------------------------------ C9
\* C9: a Register on an identity that already has an entry does not replace
\* the wrapper stored there.
RegisterKeepsLiveEntry ==
    [][\A t \in Threads :
          RegisterStep(t) /\ op[t].id \in DOMAIN reg
          => reg'[op[t].id] = reg[op[t].id]]_vars


\* ----------------------------------------------------------------- C18
\* C18: Register(i, w) and Delete(i) on the Registry of an object leave
\* what Load returns for every other identity of that Registry, and leave
\* the Registry of the other object, as they were, while Load(i) afterwards
\* returns w, respectively nil; Load changes neither Registry.
RegistryFrame ==
    /\ [][\A o \in Objects, i \in Identities, w \in FuncStacks :
            RegisterOn(o, i, w)
            => /\ Load(RegistryOf(o)', i) = w
               /\ \A j \in Identities \ {i} :
                     Load(RegistryOf(o)', j) = Load(RegistryOf(o), j)
               /\ \A p \in Objects \ {o} : RegistryOf(p)' = RegistryOf(p)]_vars
    /\ [][\A o \in Objects, i \in Identities :
            DeleteOn(o, i)
            => /\ Load(RegistryOf(o)', i) = Nil
               /\ \A j \in Identities \ {i} :
                     Load(RegistryOf(o)', j) = Load(RegistryOf(o), j)
               /\ \A p \in Objects \ {o} : RegistryOf(p)' = RegistryOf(p)]_vars
    /\ [][\A o \in Objects, i \in Identities :
            LoadOn(o, i) => (reg' = reg /\ other' = other)]_vars

\* Both objects hold an entry under the same identity, with different
\* wrappers, and the first object has an entry under the other identity too.
TwoRegistriesWitness ==
    /\ DOMAIN reg = Identities
    /\ \E i \in Identities :
          i \in DOMAIN other /\ other[i] # reg[i]
    /\ \E i, j \in Identities : reg[i] # reg[j]


\* ===================================================== Spec: the lifecycle

\* closure.NewFuncStack(f, 2): a fresh *FuncStack around f; n tells the
\* allocations apart.
NewFuncStack(f, n) == [Func |-> f, seq |-> n]

\* connectClosure's receiver check: whether fs.Panicf is reached.
receiverPanicsIgnoresArity(checkReceiver, goValueErr, f) ==
    /\ checkReceiver
    /\ ~goValueErr
    /\ NumIn(f) >= 1 /\ ~ConvertibleTo(f)

receiverPanicsIgnoresErr(checkReceiver, goValueErr, f) ==
    /\ checkReceiver
    /\ (NumIn(f) < 1 \/ ~ConvertibleTo(f))

receiverPanics(checkReceiver, goValueErr, f) ==
    /\ checkReceiver
    /\ ~goValueErr
    /\ (NumIn(f) < 1 \/ ~ConvertibleTo(f))

\* --------------------------------------------------- association table
\* Associate is never called by connectClosure; Dissociate is what a
\* handle-based disconnect and the finalize path use.

DissociateHandle(sc, cs, handle) ==
    [sc |-> [h \in DOMAIN sc \ {handle} |-> sc[h]],
     cs |-> IF handle \in DOMAIN sc
            THEN [g \in DOMAIN cs \ {sc[handle]} |-> cs[g]] ELSE cs]

DissociateClosure(sc, cs, gclosure) ==
    [sc |-> IF gclosure \in DOMAIN cs
            THEN [h \in DOMAIN sc \ {cs[gclosure]} |-> sc[h]] ELSE sc,
     cs |-> [g \in DOMAIN cs \ {gclosure} |-> cs[g]]]

\* intern.RemoveClosure(obj, gclosure): the object's box deletes the
\* closure from its registry.
RemoveClosure(r, gclosure) == Delete(r, gclosure)

\* ------------------------------------------------------------ connecting

\* connectClosure up to the call of ClosureNew: build the FuncStack and, with
\* ClosureCheckReceiver, check the receiver.  A panic ends the call.
connectClosure(after, detailedSignal, f, goValueErr) ==
    /\ alive
    /\ cn.pc = "idle"
    /\ nconn < MaxConnects
    /\ nconn' = nconn + 1
    /\ IF receiverPanics(strict, goValueErr, f)
       THEN cn' = [IdleConn EXCEPT !.out = "panic"]
       ELSE cn' = [IdleConn EXCEPT !.pc = "ClosureNew", !.after = after,
                                   !.sig = detailedSignal, !.f = f,
                                   !.fs = NewFuncStack(f, nconn + 1),
                                   !.goErr = goValueErr]
    /\ UNCHANGED <<reg, closures, handlers, signalClosures, closureSignals, em,
                   strict, alive, regVars>>

\* What v.goValue() may answer: it is only called under ClosureCheckReceiver.
GoValueErrs == IF strict THEN BOOLEAN ELSE {FALSE}

Connect(detailedSignal, f) ==
    \E goValueErr \in GoValueErrs : connectClosure(FALSE, detailedSignal, f, goValueErr)

ConnectAfter(detailedSignal, f) ==
    \E goValueErr \in GoValueErrs : connectClosure(TRUE, detailedSignal, f, goValueErr)

\* The f interface{} that ClosureNew receives: a dynamic type and a value,
\* either the *closure.FuncStack that connectClosure built or a callable.
FuncStackValue(fs) == [type |-> "*closure.FuncStack", Func |-> fs.Func, seq |-> fs.seq]
FuncValue(f) == [type |-> "func", Func |-> f, seq |-> 0]

ClosureNewAlwaysWraps(f, n) == NewFuncStack(f.Func, n)

\* ClosureNew: fs, ok := f.(*closure.FuncStack); if !ok { fs = NewFuncStack(f, 2) }
ClosureNewFuncStack(f, n) ==
    IF f.type = "*closure.FuncStack"
    THEN [Func |-> f.Func, seq |-> f.seq]
    ELSE NewFuncStack(f.Func, n)

\* A direct call of the exported ClosureNew with a callable.
ClosureNew(f) ==
    /\ alive
    /\ cn.pc = "idle"
    /\ nconn < MaxConnects
    /\ nconn' = nconn + 1
    /\ cn' = [IdleConn EXCEPT !.pc = "ClosureNew", !.f = f, !.direct = TRUE]
    /\ UNCHANGED <<reg, closures, handlers, signalClosures, closureSignals, em,
                   strict, alive, regVars>>

\* ClosureNew: the type assertion, then g_closure_new_simple hands out an
\* address not in use.  A FuncStack allocated here is told apart from those
\* of connectClosure by a seq above MaxConnects.
ClosureNewSimple ==
    /\ cn.pc = "ClosureNew"
    /\ \E g \in Identities :
         /\ closures[g].st = "free"
         /\ closures' = [closures EXCEPT ![g] = [FreeClosure EXCEPT !.st = "floating"]]
         /\ cn' = [cn EXCEPT !.pc = "Register", !.gclosure = g,
                             !.fs = ClosureNewFuncStack(
                                        IF cn.direct THEN FuncValue(cn.f)
                                                     ELSE FuncStackValue(cn.fs),
                                        MaxConnects + nconn)]
    /\ UNCHANGED <<reg, handlers, signalClosures, closureSignals, em, strict, alive, nconn, regVars>>

ClosureNewRegisterSkipped ==
    /\ cn.pc = "Register"
    /\ cn' = [cn EXCEPT !.pc = "SetMetaMarshal"]
    /\ UNCHANGED <<reg, closures, handlers, signalClosures, closureSignals, em, strict, alive, nconn, regVars>>

\* ClosureNew: v.box.Closures.Register(unsafe.Pointer(gclosure), fs)
ClosureNewRegister ==
    /\ cn.pc = "Register"
    /\ reg' = Register(reg, cn.gclosure, cn.fs)
    /\ cn' = [cn EXCEPT !.pc = "SetMetaMarshal"]
    /\ UNCHANGED <<closures, handlers, signalClosures, closureSignals, em, strict, alive, nconn, regVars>>

\* ClosureNew: g_closure_set_meta_marshal(gclosure, obj, goMarshal)
ClosureNewSetMetaMarshal ==
    /\ cn.pc = "SetMetaMarshal"
    /\ closures' = [closures EXCEPT ![cn.gclosure].marshal = TRUE]
    /\ cn' = [cn EXCEPT !.pc = "AddFinalizeNotifier"]
    /\ UNCHANGED <<reg, handlers, signalClosures, closureSignals, em, strict, alive, nconn, regVars>>

\* ClosureNew: g_closure_add_finalize_notifier(gclosure, obj, removeClosure)
ClosureNewAddFinalizeNotifier ==
    /\ cn.pc = "AddFinalizeNotifier"
    /\ closures' = [closures EXCEPT ![cn.gclosure].notify = TRUE]
    /\ cn' = IF cn.direct THEN [IdleConn EXCEPT !.out = "closure"]
                           ELSE [cn EXCEPT !.pc = "SignalConnect"]
    /\ UNCHANGED <<reg, handlers, signalClosures, closureSignals, em, strict, alive, nconn, regVars>>

\* g_signal_connect_closure(obj, cstr, gclosure, gbool(after)): a known
\* signal gets a handler and the next handle; an unknown one gets handle 0
\* and the closure is left as it is, owned by nobody.  Where the runtime
\* places the handler relative to the default one (after) is its own matter.
SignalConnectClosure ==
    /\ cn.pc = "SignalConnect"
    /\ IF cn.sig \in ValidSignals
       THEN /\ handlers' = Append(handlers,
                  [closure |-> cn.gclosure, fs |-> cn.fs,
                   connected |-> TRUE, td |-> << >>])
            /\ closures' = [closures EXCEPT ![cn.gclosure].st = "connected"]
            /\ cn' = [cn EXCEPT !.pc = "return", !.c = Len(handlers) + 1]
       ELSE /\ cn' = [cn EXCEPT !.pc = "return", !.c = 0]
            /\ UNCHANGED <<handlers, closures>>
    /\ UNCHANGED <<reg, signalClosures, closureSignals, em, strict, alive, nconn, regVars>>

\* return SignalHandle(c)
connectClosureReturn ==
    /\ cn.pc = "return"
    /\ cn' = [IdleConn EXCEPT !.out = IF cn.c = 0 THEN "zero" ELSE "handle"]
    /\ UNCHANGED <<reg, closures, handlers, signalClosures, closureSignals, em,
                   strict, alive, nconn, regVars>>

\* ------------------------------------------------------------- teardown

\* The handler of the closure at address g that the runtime still holds.
HandleOf(g) ==
    IF \E h \in 1..Len(handlers) : handlers[h].closure = g /\ closures[g].st \in {"connected", "invalid"}
                                   /\ ~\E e \in 1..Len(handlers[h].td) : handlers[h].td[e].by = "finalize"
    THEN CHOOSE h \in 1..Len(handlers) :
            handlers[h].closure = g
            /\ ~\E e \in 1..Len(handlers[h].td) : handlers[h].td[e].by = "finalize"
    ELSE 0

Disconnected(h) == \E e \in 1..Len(handlers[h].td) : handlers[h].td[e].by = "disconnect"
Finalized(h) == \E e \in 1..Len(handlers[h].td) : handlers[h].td[e].by = "finalize"

\* Disconnect(handle): drop the association of the handle, and with it the
\* registry entry of the associated closure, then have the runtime
\* disconnect the handler; the runtime finalizes the closure later.
Disconnect(handle) ==
    /\ alive
    /\ handle \in 1..Len(handlers)
    /\ ~(cn.pc = "return" /\ cn.c = handle)     \* the caller holds the handle
    /\ ~Disconnected(handle)
    /\ LET found == handle \in DOMAIN signalClosures
           d == DissociateHandle(signalClosures, closureSignals, handle)
           g == handlers[handle].closure
           r == IF found THEN Delete(reg, signalClosures[handle]) ELSE reg
       IN /\ reg' = r
          /\ signalClosures' = d.sc
          /\ closureSignals' = d.cs
          /\ handlers' = [handlers EXCEPT
                 ![handle].connected = FALSE,
                 ![handle].td = Append(@, [by |-> "disconnect",
                       removed |-> (~Finalized(handle) /\ g \in DOMAIN reg /\ g \notin DOMAIN r)])]
          /\ closures' = IF handlers[handle].connected
                         THEN [closures EXCEPT ![g].st = "invalid"] ELSE closures
    /\ UNCHANGED <<cn, em, strict, alive, nconn, regVars>>

\* removeClosure(obj, gclosure): the finalize notifier, run by the runtime
\* when it destroys a closure it was handed, after a disconnect or on its
\* own.  The address is free again once it returns.
removeClosure(g) ==
    /\ closures[g].st \in {"connected", "invalid"}
    /\ closures[g].notify
    /\ LET d == DissociateClosure(signalClosures, closureSignals, g)
           h == HandleOf(g)
       IN /\ reg' = RemoveClosure(reg, g)
          /\ signalClosures' = d.sc
          /\ closureSignals' = d.cs
          /\ handlers' = [handlers EXCEPT
                 ![h].connected = FALSE,
                 ![h].td = Append(@, [by |-> "finalize",
                       removed |-> (g \in DOMAIN reg /\ g \notin DOMAIN reg')])]
          /\ closures' = [closures EXCEPT ![g] = FreeClosure]
    /\ UNCHANGED <<cn, em, strict, alive, nconn, regVars>>

\* The object is torn down: no call on it is in progress, the runtime has
\* dropped its handlers and closures, and its box goes, and with the box the
\* Registry and every entry in it.
ObjectTeardown ==
    /\ alive
    /\ cn.pc = "idle" /\ em.pc = "idle"
    /\ alive' = FALSE
    /\ reg' = NewRegistry
    /\ signalClosures' = << >>
    /\ closureSignals' = << >>
    /\ closures' = [g \in Identities |-> FreeClosure]
    /\ handlers' = [h \in DOMAIN handlers |-> [handlers[h] EXCEPT !.connected = FALSE]]
    /\ UNCHANGED <<cn, em, strict, nconn, regVars>>

\* ------------------------------------------------------------- emission

\* The runtime starts invoking the closure of a connected handler: goMarshal
\* is entered with the closure's address and n native values.
EmitStart(h, n) ==
    /\ alive
    /\ em.pc = "idle"
    /\ h \in 1..Len(handlers)
    /\ handlers[h].connected
    /\ closures[handlers[h].closure].marshal
    /\ em' = [IdleEmission EXCEPT !.pc = "Load", !.h = h, !.closure = handlers[h].closure,
                                  !.nargs = n, !.late = Disconnected(h)]
    /\ UNCHANGED <<reg, cn, closures, handlers, signalClosures, closureSignals,
                   strict, alive, nconn, regVars>>

\* goMarshal: fs := box.Closures.Load(gclosure); nil means bail.  A callable
\* that declares more parameters than the emission supplies is not called:
\* that failure is reported and goMarshal returns.
goMarshalLoad ==
    /\ em.pc = "Load"
    /\ LET fs == Load(reg, em.closure)
           tooMany == fs # Nil /\ NumIn(fs.Func) > em.nargs
       IN em' = [em EXCEPT !.fs = fs,
                           !.absent = em.closure \notin DOMAIN reg,
                           !.fin = Finalized(em.h),
                           !.err = tooMany,
                           !.pc = IF fs = Nil \/ tooMany THEN "return" ELSE "invoke"]
    /\ UNCHANGED <<reg, cn, closures, handlers, signalClosures, closureSignals,
                   strict, alive, nconn, regVars>>

goMarshalInvokeUnwinds(fails) ==
    /\ em.pc = "invoke"
    /\ em' = [em EXCEPT !.invoked = TRUE, !.passed = NumIn(em.fs.Func),
                        !.failed = fails, !.unwound = fails,
                        !.pc = IF fails THEN "unwound" ELSE "return"]
    /\ UNCHANGED <<reg, cn, closures, handlers, signalClosures, closureSignals,
                   strict, alive, nconn, regVars>>

\* goMarshal: the callable is invoked with the leading NumIn values.  When
\* it fails, the failure is caught here and reported; goMarshal goes on to
\* its return either way.
goMarshalInvoke(fails) ==
    /\ em.pc = "invoke"
    /\ em' = [em EXCEPT !.invoked = TRUE, !.passed = NumIn(em.fs.Func),
                        !.failed = fails, !.err = fails, !.pc = "return"]
    /\ UNCHANGED <<reg, cn, closures, handlers, signalClosures, closureSignals,
                   strict, alive, nconn, regVars>>

\* goMarshal returns to the runtime.
goMarshalReturn ==
    /\ em.pc = "return"
    /\ em' = IdleEmission
    /\ UNCHANGED <<reg, cn, closures, handlers, signalClosures, closureSignals,
                   strict, alive, nconn, regVars>>

\* ------------------------------------------------------------ the system

\* The state after construction, ClosureCheckReceiver being b.
InitWith(b) ==
    /\ reg = NewRegistry
    /\ other = NewRegistry
    /\ pc = [t \in Threads |-> "idle"]
    /\ op = [t \in Threads |-> NoOp]
    /\ ret = [t \in Threads |-> NoRet]
    /\ log = << >>
    /\ strict = b
    /\ alive = TRUE
    /\ cn = IdleConn
    /\ nconn = 0
    /\ closures = [g \in Identities |-> FreeClosure]
    /\ handlers = << >>
    /\ signalClosures = << >>
    /\ closureSignals = << >>
    /\ em = IdleEmission

\* const ClosureCheckReceiver = false
Init == InitWith(FALSE)

\* Either build of the constant: as shipped, or changed to true.
InitBuilds == \E b \in BOOLEAN : InitWith(b)

Next ==
    \/ \E s \in Signals, f \in Callbacks : Connect(s, f)
    \/ \E s \in Signals, f \in Callbacks : ConnectAfter(s, f)
    \/ ClosureNewSimple
    \/ ClosureNewRegister
    \/ ClosureNewSetMetaMarshal
    \/ ClosureNewAddFinalizeNotifier
    \/ SignalConnectClosure
    \/ connectClosureReturn
    \/ \E h \in 1..MaxConnects : Disconnect(h)
    \/ \E g \in Identities : removeClosure(g)
    \/ \E h \in 1..MaxConnects, n \in ClickedArgs : EmitStart(h, n)
    \/ goMarshalLoad
    \/ \E fails \in BOOLEAN : goMarshalInvoke(fails)
    \/ goMarshalReturn

Spec == Init /\ [][Next]_vars

\* Connecting, disconnecting and finalizing, without emissions.
NextConnect ==
    \/ \E s \in Signals, f \in Callbacks : Connect(s, f)
    \/ \E s \in Signals, f \in Callbacks : ConnectAfter(s, f)
    \/ ClosureNewSimple
    \/ ClosureNewRegister
    \/ ClosureNewSetMetaMarshal
    \/ ClosureNewAddFinalizeNotifier
    \/ SignalConnectClosure
    \/ connectClosureReturn
    \/ \E h \in 1..MaxConnects : Disconnect(h)
    \/ \E g \in Identities : removeClosure(g)

\* The connect path under either value of ClosureCheckReceiver.
SpecBuilds == InitBuilds /\ [][NextConnect]_vars


\* Emissions with one or three native values to callbacks declaring one or
\* three parameters, connected to a signal the runtime knows.
NextArity ==
    \/ \E s \in ValidSignals, f \in ArityCallbacks : Connect(s, f)
    \/ \E s \in ValidSignals, f \in ArityCallbacks : ConnectAfter(s, f)
    \/ ClosureNewSimple
    \/ ClosureNewRegister
    \/ ClosureNewSetMetaMarshal
    \/ ClosureNewAddFinalizeNotifier
    \/ SignalConnectClosure
    \/ connectClosureReturn
    \/ \E h \in 1..MaxConnects : Disconnect(h)
    \/ \E g \in Identities : removeClosure(g)
    \/ \E h \in 1..MaxConnects, n \in ArityArgs : EmitStart(h, n)
    \/ goMarshalLoad
    \/ \E fails \in BOOLEAN : goMarshalInvoke(fails)
    \/ goMarshalReturn

SpecArity == Init /\ [][NextArity]_vars

\* Connecting and finalizing next to direct calls of ClosureNew.
NextClosureNew ==
    \/ NextConnect
    \/ \E f \in Callbacks : ClosureNew(f)

SpecClosureNew == Init /\ [][NextClosureNew]_vars

\* The callbacks of the runs that follow entries to their removal.
LiveCallbacks == {"fObj"}

\* A call that allocates a closure is made while the runtime has an address
\* to hand out, so that g_closure_new_simple never waits.
AddressLeft == \E g \in Identities : closures[g].st = "free"

ConnectStep ==
    \/ ClosureNewSimple
    \/ ClosureNewRegister
    \/ ClosureNewSetMetaMarshal
    \/ ClosureNewAddFinalizeNotifier
    \/ SignalConnectClosure
    \/ connectClosureReturn

goMarshalStep ==
    \/ goMarshalLoad
    \/ goMarshalInvoke(FALSE)
    \/ goMarshalReturn

NextLive ==
    \/ \E s \in Signals, f \in LiveCallbacks : AddressLeft /\ Connect(s, f)
    \/ \E f \in LiveCallbacks : AddressLeft /\ ClosureNew(f)
    \/ ConnectStep
    \/ \E h \in 1..MaxConnects : Disconnect(h)
    \/ \E g \in Identities : removeClosure(g)
    \/ \E h \in 1..MaxConnects, n \in ClickedArgs : EmitStart(h, n)
    \/ goMarshalStep
    \/ ObjectTeardown

\* Calls in progress go on to their end; the runtime finalizes every closure
\* it holds; the object is torn down at one of the moments that allow it.
Fairness ==
    /\ WF_vars(ConnectStep)
    /\ WF_vars(goMarshalStep)
    /\ \A g \in Identities : WF_vars(removeClosure(g))
    /\ SF_vars(ObjectTeardown)

SpecLive == Init /\ [][NextLive]_vars /\ Fairness

\* ====================================================== Spec: the claims

Handles == 1..Len(handlers)

\* The callbacks the receiver check is meant to refuse.
BadReceiver(f) == NumIn(f) < 1 \/ ~ConvertibleTo(f)

\* ------------------------------------------------------------------ C4
\* C4: once Disconnect(h) has completed, no emission that starts afterwards
\* invokes the callback, and Load of the identity Connect registered no
\* longer returns the wrapper of that Connect.
DisconnectRemovesEntry ==
    /\ em.invoked => ~em.late
    /\ \A h \in Handles :
          Disconnected(h) => Load(reg, handlers[h].closure) # handlers[h].fs

\* ------------------------------------------------------------------ C5
\* C5: when the runtime destroys a connected closure for which Disconnect
\* was never called, the state removeClosure leaves has no registry entry
\* under the closure's identity and no association with it in either table.
FinalizeWithoutDisconnect ==
    [][\A g \in Identities :
          removeClosure(g) /\ HandleOf(g) # 0 /\ ~Disconnected(HandleOf(g))
          => /\ g \notin DOMAIN reg'
             /\ g \notin DOMAIN closureSignals'
             /\ \A h \in DOMAIN signalClosures' : signalClosures'[h] # g]_vars

\* A closure was finalized with no Disconnect before it, and the finalize
\* path is what removed its entry.
FinalizeOnlyWitness ==
    \E h \in Handles :
        /\ handlers[h].td = <<[by |-> "finalize", removed |-> TRUE]>>
        /\ closures[handlers[h].closure].st = "free"

\* ------------------------------------------------------------------ C6
\* C6: of Disconnect and the finalize trampoline, whichever runs first on a
\* connected closure removes its registry entry, and the one that runs
\* second finds it gone and removes nothing.
TeardownExactlyOnce ==
    \A h \in Handles :
        /\ Len(handlers[h].td) >= 1 => handlers[h].td[1].removed
        /\ Len(handlers[h].td) >= 2 => ~handlers[h].td[2].removed

\* ------------------------------------------------------------------ C7
\* C7: when the native connect has failed (handle 0), the registry holds no
\* entry for the closure that this Connect allocated and registered.
FailedConnectCleansUp ==
    (cn.pc = "return" /\ cn.c = 0) => cn.gclosure \notin DOMAIN reg

AbsentOnEmissionBenign ==
    /\ [](em.absent => (em.pc = "return" /\ ~em.invoked /\ ~em.err))
    /\ [][(goMarshalLoad /\ em.closure \notin DOMAIN reg) => reg' = reg]_vars
    /\ [][(goMarshalReturn /\ em.absent) => (reg' = reg /\ em'.pc = "idle")]_vars

\* goMarshal found no entry for the closure it was entered with.
AbsentEmissionWitness ==
    em.absent /\ em.pc = "return" /\ em.closure \notin DOMAIN reg


\* ----------------------------------------------------------------- C11
\* C11: for every handle h that Connect has returned, h is associated with
\* its closure exactly while the closure is connected and neither
\* disconnected nor finalized, and the two tables are inverses of each other.
AssociationIffConnected ==
    /\ \A h \in Handles :
          ~(cn.pc = "return" /\ cn.c = h)
          => ((h \in DOMAIN signalClosures /\ signalClosures[h] = handlers[h].closure)
              <=> (~Disconnected(h) /\ ~Finalized(h)))
    /\ \A h \in DOMAIN signalClosures :
          signalClosures[h] \in DOMAIN closureSignals /\ closureSignals[signalClosures[h]] = h
    /\ \A g \in DOMAIN closureSignals :
          closureSignals[g] \in DOMAIN signalClosures /\ signalClosures[closureSignals[g]] = g

\* ----------------------------------------------------------------- C12
\* C12: an address the runtime has finalized and not handed out again has no
\* registry entry; the wrapper of a finalized closure is never found under
\* its address again; and an entry under the address of a closure being
\* built or connected is that closure's own wrapper.
NoEntryOutlivesFinalization ==
    /\ \A g \in Identities : closures[g].st = "free" => g \notin DOMAIN reg
    /\ \A h \in Handles :
          Finalized(h) => Load(reg, handlers[h].closure) # handlers[h].fs
    /\ \A g \in DOMAIN reg :
          IF cn.pc # "idle" /\ cn.gclosure = g THEN reg[g] = cn.fs
          ELSE HandleOf(g) # 0 => reg[g] = handlers[HandleOf(g)].fs

\* The address of a finalized closure has been handed out again and now
\* carries the entry of the later closure.
IdentityReusedWitness ==
    \E h \in Handles :
        /\ Finalized(h)
        /\ handlers[h].closure \in DOMAIN reg
        /\ reg[handlers[h].closure].seq > handlers[h].fs.seq

DisconnectOnlyFuture ==
    /\ [][((\E h \in 1..MaxConnects : Disconnect(h)) \/ (\E g \in Identities : removeClosure(g)))
            => em' = em]_vars
    /\ [](em.pc = "invoke" => ENABLED goMarshalInvoke(FALSE))
    /\ [][\A h \in 1..MaxConnects, n \in ClickedArgs :
            EmitStart(h, n) => (~Disconnected(h) /\ ~Finalized(h))]_vars
    /\ [](em.invoked => ~em.late)
    /\ []((em.fin /\ em.fs # Nil) => em.fs # handlers[em.h].fs)

\* An emission loaded the wrapper, the closure was then disconnected and
\* finalized, and the emission is about to invoke the wrapper it holds.
InFlightTeardownWitness ==
    /\ em.pc = "invoke" /\ ~em.fin
    /\ em.fs = handlers[em.h].fs
    /\ Disconnected(em.h) /\ Finalized(em.h)
    /\ em.closure \notin DOMAIN reg

ConnectOrdering ==
    /\ \A g \in Identities :
          /\ (closures[g].marshal \/ closures[g].notify) => g \in DOMAIN reg
          /\ closures[g].notify => closures[g].marshal
          /\ closures[g].st = "connected"
             => /\ closures[g].marshal /\ closures[g].notify
                /\ HandleOf(g) # 0
                /\ Load(reg, g) # Nil
                /\ Load(reg, g) = handlers[HandleOf(g)].fs
    /\ em.absent => Finalized(em.h)

\* goMarshal has loaded the wrapper of a closure that is still connected.
ConnectedEmissionWitness ==
    \E g \in Identities :
        /\ closures[g].st = "connected"
        /\ em.pc = "invoke" /\ em.closure = g /\ em.fs = reg[g]

\* ----------------------------------------------------------------- C17
\* C17: with the runtime finalizing every closure it holds and the object
\* torn down in the end, every identity that has a registry entry comes to
\* have none; removeClosure leaves no entry under the identity it was called
\* for; and once the object is torn down the registry is empty and stays so.
EntriesEventuallyRemoved ==
    /\ \A g \in Identities : (g \in DOMAIN reg) ~> (g \notin DOMAIN reg)
    /\ [][\A g \in Identities : removeClosure(g) => g \notin DOMAIN reg']_vars
    /\ [](~alive => reg = NewRegistry)
    /\ [][~alive => ~alive']_vars

\* The object has been torn down after a Connect whose native connect
\* failed, and whose entry no finalization would have removed.
TeardownDropsEntriesWitness ==
    /\ ~alive /\ cn.out = "zero"
    /\ Len(handlers) > 0
    /\ reg = NewRegistry

\* ----------------------------------------------------------------- C19
\* C19: the Register step of ClosureNew is the only step of a Connect,
\* ConnectAfter or ClosureNew call that changes the registry; it adds one
\* entry under the address just handed out, which had none, and leaves the
\* others; for a Connect that entry is the FuncStack connectClosure built
\* from the callback, for a bare callable a FuncStack allocated in
\* ClosureNew around it; the native connect finds that entry; Connect and
\* ConnectAfter start the same call but for the after flag, which stays as
\* given up to the native connect.
ConnectAddsOneEntry ==
    /\ [][ClosureNewRegister
            => /\ cn.gclosure \notin DOMAIN reg
               /\ DOMAIN reg' = DOMAIN reg \cup {cn.gclosure}
               /\ \A g \in DOMAIN reg : reg'[g] = reg[g]
               /\ reg'[cn.gclosure] = IF cn.direct
                                      THEN NewFuncStack(cn.f, MaxConnects + nconn)
                                      ELSE NewFuncStack(cn.f, nconn)]_vars
    /\ [][(cn' # cn /\ cn.pc # "Register") => reg' = reg]_vars
    /\ [][SignalConnectClosure
            => (~cn.direct /\ Load(reg, cn.gclosure) = NewFuncStack(cn.f, nconn))]_vars
    /\ [][\A a \in BOOLEAN, s \in Signals, f \in Callbacks, e \in BOOLEAN :
            (connectClosure(a, s, f, e) /\ cn'.pc # "idle")
            => cn' = [IdleConn EXCEPT !.pc = "ClosureNew", !.after = a, !.sig = s,
                                      !.f = f, !.fs = NewFuncStack(f, nconn + 1),
                                      !.goErr = e]]_vars
    /\ [][(cn.pc # "idle" /\ cn'.pc # "idle")
            => (cn'.after = cn.after /\ cn'.sig = cn.sig /\ cn'.f = cn.f)]_vars

\* A ConnectAfter is returning its handle, and the registry holds the
\* FuncStack connectClosure built under the address of its closure.
ConnectAfterWitness ==
    /\ cn.pc = "return" /\ cn.c # 0 /\ cn.after
    /\ Load(reg, cn.gclosure) = NewFuncStack(cn.f, nconn)
    /\ Cardinality(DOMAIN reg) = 2

\* ----------------------------------------------------------------- C20
\* C20: a Connect for which goValue returns an error under
\* ClosureCheckReceiver, and every Connect without ClosureCheckReceiver,
\* goes on to ClosureNew with the wrapper of its callback whatever the
\* callback is, and reaches the native connect with the closure allocated,
\* registered and both trampolines installed.
StrictSkippedOnGoValueError ==
    /\ [][\A a \in BOOLEAN, s \in Signals, f \in Callbacks, e \in BOOLEAN :
            (connectClosure(a, s, f, e) /\ (~strict \/ e))
            => /\ cn' = [IdleConn EXCEPT !.pc = "ClosureNew", !.after = a, !.sig = s,
                                         !.f = f, !.fs = NewFuncStack(f, nconn + 1),
                                         !.goErr = e]
               /\ reg' = reg /\ closures' = closures]_vars
    /\ [][SignalConnectClosure
            => /\ Load(reg, cn.gclosure) = cn.fs
               /\ closures[cn.gclosure].marshal /\ closures[cn.gclosure].notify]_vars

\* Under ClosureCheckReceiver, a callback the check would refuse has been
\* connected because goValue returned an error.
GoValueErrorWitness ==
    /\ strict /\ cn.goErr /\ BadReceiver(cn.f)
    /\ cn.pc = "return" /\ cn.c # 0
    /\ Load(reg, cn.gclosure) = cn.fs

====
